---- MODULE Spec2Model ----
(***************************************************************************)
(* A model of the ROV surface code: the thrust allocator, the Thruster and *)
(* FrameThrusters classes with their persisted profile (thruster_pwm.py),  *)
(* the joystick normalizer and its calibration utility (controller.py),    *)
(* and the control loop with its hot tuning (main.py).                     *)
(*                                                                         *)
(* Python floats are modelled as exact rationals <<n, d>> in lowest terms  *)
(* with d > 0.  None is the string "None".                                 *)
(***************************************************************************)
EXTENDS Integers, Sequences, FiniteSets, TLC

VARIABLES
    \* FrameThrusters and its profile folder
    thr,                  \* the six Thruster objects, by id
    overall_multiplier,   \* FrameThrusters.overall_multiplier
    folder_path,          \* FrameThrusters.folder_path
    folder_exists,        \* the profile folder exists on disk
    thruster_file,        \* thruster_profile.fngr: NoFile or a sequence of lines
    frame_file,           \* frame_profile.fngr: NoFile or a sequence of lines
    frame,                \* "none" (not constructed), "ok", "raised"
    exc,                  \* the exception the last operation raised, or "None"
    last,                 \* the last operation and what it was called with
    ops,                  \* number of operations applied to the frame object
    \* the allocator functions
    alloc_args,           \* arguments of a call of the allocator
    alloc_ret,            \* what that call returned, once it has
    \* Controller
    ctrl,                 \* calibration profile: centers and ranges
    raw,                  \* what the joystick device reads now
    controls,             \* what Controller.get() returned, once it has
    ctrl_exc,             \* the exception the last Controller.get() raised, or "None"
    squeeze_call,         \* a call of squeeze: its arguments and what it returned
    cal_state,            \* where Controller.config() is, or "idle"
    sweep,                \* the centered samples config() read in its sweep so far
    \* Main
    ctrl_invert_mask,     \* Main.ctrl_invert_mask
    instantaneous_controls, \* Main.instantaneous_controls
    sent,                 \* what PiConnection.send was called with, in order
    main_exc,             \* the exception Main.main() ended with, or "None"
    main_pc,              \* where Main.main() is: "idle", "poll" or "handle"
    cycles                \* iterations of the loop of Main.main() begun

frame_vars == <<thr, overall_multiplier, folder_path, folder_exists, thruster_file,
                frame_file, frame, exc, last, ops>>
alloc_vars == <<alloc_args, alloc_ret>>
ctrl_vars == <<ctrl, raw, controls, ctrl_exc, squeeze_call, cal_state, sweep>>
main_vars == <<ctrl_invert_mask, instantaneous_controls, sent, main_exc, main_pc,
               cycles>>
vars == <<frame_vars, alloc_vars, ctrl_vars, main_vars>>

None == "None"

----------------------------------------------------------------------------
(* Bounds of the model *)

\* Stick/axis inputs of the allocator are the multiples of 1/AxisSteps in [-1,1].
AxisSteps == 2

\* Inputs of FrameThrusters.thrust_calc are the multiples of 1/ThrustSteps in [-1,1].
ThrustSteps == 1

\* Operations applied to one FrameThrusters object.
MaxOps == 2

\* Raw stick axes read by Controller.get are the multiples of 1/RawSteps in [-1,1].
RawSteps == 1

\* The x passed to squeeze is a multiple of 1/20 of magnitude up to SqueezeSpan/20.
SqueezeSpan == 30

\* Iterations of the sweep loop of Controller.config() within its 10 seconds.
MaxSweep == 2

\* Iterations of the loop of Main.main().
MaxCycles == 2

----------------------------------------------------------------------------
(* Exact rational arithmetic for Python's float expressions *)

Abs(n) == IF n < 0 THEN -n ELSE n

RECURSIVE GCD(_, _)
GCD(a, b) == IF b = 0 THEN a ELSE GCD(b, a % b)

\* n/d in lowest terms, d # 0
R(n, d) ==
    LET s == IF d < 0 THEN -1 ELSE 1
        g == GCD(Abs(n), Abs(d))
    IN  <<(s * n) \div g, (s * d) \div g>>

Zero == R(0, 1)
One == R(1, 1)
MinusOne == R(-1, 1)
Half == R(1, 2)

RAdd(a, b) == R(a[1] * b[2] + b[1] * a[2], a[2] * b[2])
RNeg(a) == <<-a[1], a[2]>>
RSub(a, b) == RAdd(a, RNeg(b))
RMul(a, b) == R(a[1] * b[1], a[2] * b[2])
RDiv(a, b) == R(a[1] * b[2], a[2] * b[1])
RLt(a, b) == a[1] * b[2] < b[1] * a[2]
RLe(a, b) == a[1] * b[2] <= b[1] * a[2]
RAbs(a) == <<Abs(a[1]), a[2]>>
\* Python's max(a, b) and min(a, b) on numbers
RMax(a, b) == IF RLt(a, b) THEN b ELSE a
RMin(a, b) == IF RLt(b, a) THEN b ELSE a
\* Python's int(): truncation toward zero
Trunc(a) == IF a[1] >= 0 THEN a[1] \div a[2] ELSE -((-a[1]) \div a[2])
RInt(n) == R(n, 1)

\* The multiples of 1/steps in [-1, 1]
Grid(steps) == { R(i, steps) : i \in (-steps)..steps }

----------------------------------------------------------------------------
(* The allocator: lateral_thruster_calc and vertical_pwm_calc *)

LateralIds == {"fr", "fl", "rr", "rl"}
VerticalIds == {"fv", "rv"}
ThrusterIds == LateralIds \cup VerticalIds

\* thruster_pwm.py 328-344: the raw mix, before normalization
lateral_mix(x, y, r) ==
    LET x_contrib == <<x, RNeg(x), RNeg(x), x>>
        y_contrib == <<y, y, y, y>>
        r_contrib == <<r, RNeg(r), r, RNeg(r)>>
    IN  [fr |-> RAdd(RAdd(x_contrib[1], y_contrib[1]), r_contrib[1]),
         fl |-> RAdd(RAdd(x_contrib[2], y_contrib[2]), r_contrib[2]),
         rr |-> RAdd(RAdd(x_contrib[3], y_contrib[3]), r_contrib[3]),
         rl |-> RAdd(RAdd(x_contrib[4], y_contrib[4]), r_contrib[4])]

\* A normalization with no floor of 1: always scales the largest to magnitude 1
lateral_normalization_nofloor(m) ==
    LET big == RMax(RMax(RAbs(m.fr), RAbs(m.fl)), RMax(RAbs(m.rr), RAbs(m.rl)))
    IN  IF big = Zero THEN One ELSE big

\* A normalization that forgets the rear thrusters
lateral_normalization_front(m) ==
    RMax(RMax(RAbs(m.fr), RAbs(m.fl)), One)

\* thruster_pwm.py 345: max(abs(fr), abs(fl), abs(rr), abs(rl), 1)
lateral_normalization_factor(m) ==
    RMax(RMax(RMax(RMax(RAbs(m.fr), RAbs(m.fl)), RAbs(m.rr)), RAbs(m.rl)), One)

\* thruster_pwm.py 346-351: each raw value divided by the normalization factor
lateral_normalized(m, normalization_factor) ==
    [fr |-> RDiv(m.fr, normalization_factor),
     fl |-> RDiv(m.fl, normalization_factor),
     rr |-> RDiv(m.rr, normalization_factor),
     rl |-> RDiv(m.rl, normalization_factor)]

\* thruster_pwm.py 302-351
lateral_thruster_calc(x, y, r) ==
    LET Normalize(m) == lateral_normalized(m, lateral_normalization_factor(m))
    IN  Normalize(lateral_mix(x, y, r))

\* The other historical sign convention of the vertical mix
vertical_pwm_calc_swapped(z, pitch) ==
    LET fv == RAdd(z, pitch)
        rv == RSub(z, pitch)
        normalization_divisor == RMax(RMax(RAbs(fv), RAbs(rv)), One)
    IN  [fv |-> RDiv(fv, normalization_divisor),
         rv |-> RDiv(rv, normalization_divisor)]

\* thruster_pwm.py 354-376
vertical_pwm_calc(z, pitch) ==
    LET fv == RSub(z, pitch)
        rv == RAdd(z, pitch)
        normalization_divisor == RMax(RMax(RAbs(fv), RAbs(rv)), One)
    IN  [fv |-> RDiv(fv, normalization_divisor),
         rv |-> RDiv(rv, normalization_divisor)]

----------------------------------------------------------------------------
(* Thruster *)

\* thruster_pwm.py 35: the default pulse range (1100, 1900)
PulseMin == 1100
PulseMax == 1900

default_pulse_range == <<PulseMin, PulseMax>>

\* A Python bool-or-None is one of these strings; only "True" is truthy.
PyTrue == "True"
PyFalse == "False"
Truthy(b) == b = PyTrue

\* min(max(v, lo), hi)
Clamp(v, lo, hi) == RMin(RMax(v, lo), hi)

\* min(max(v, 0), 1) returns the int 0 or 1 where v lies outside [0, 1], and v
\* itself, a float, otherwise
ClampsToInt(v) == RLt(v, Zero) \/ RLt(One, v)

\* thruster_pwm.py 17-35: Thruster.__init__.  multiplier_int tells whether
\* multiplier holds an int, which is written without a decimal point.
Thruster(reverse_polarity, power_multiplier) ==
    [power |-> Zero,
     polarity_mask |-> IF Truthy(reverse_polarity) THEN -1 ELSE 1,
     multiplier |-> Clamp(power_multiplier, Zero, One),
     multiplier_int |-> ClampsToInt(power_multiplier),
     pulse_range |-> default_pulse_range]

\* thruster_pwm.py 42: power * polarity_mask * multiplier
effective_power(t) == RMul(RMul(t.power, RInt(t.polarity_mask)), t.multiplier)

\* thruster_pwm.py 37-43: Thruster.get_pwm
get_pwm(t) ==
    LET power == effective_power(t)
        width == RInt(t.pulse_range[2] - t.pulse_range[1])
    IN  Trunc(RAdd(RInt(t.pulse_range[1]), RMul(RMul(Half, width), power)))

\* thruster_pwm.py 45-52: Thruster.reverse_polarity (the new state of the object)
reverse_polarity(t) == [t EXCEPT !.polarity_mask = t.polarity_mask * (-1)]

\* thruster_pwm.py 54-61: Thruster.set_power
set_power(t, power) == [t EXCEPT !.power = Clamp(power, Zero, One)]

\* thruster_pwm.py 63-69: Thruster.get_power
get_power(t) == t.power

\* thruster_pwm.py 71-78: Thruster.set_multiplier
set_multiplier(t, power_multiplier) ==
    [t EXCEPT !.multiplier = Clamp(power_multiplier, Zero, One),
              !.multiplier_int = ClampsToInt(power_multiplier)]

\* thruster_pwm.py 80-87: Thruster.get_multiplier
get_multiplier(t) == RMul(t.multiplier, RInt(t.polarity_mask))

----------------------------------------------------------------------------
(* The persisted profile: two text files in the profile folder.             *)
(* A file is [exists, lines]; a line is the sequence of its colon-separated *)
(* fields (what line.split(":") returns), each field a string.  The line    *)
(* terminator is left out: float() ignores it.                              *)

NoFile == [exists |-> FALSE, lines |-> <<>>]
File(lines) == [exists |-> TRUE, lines |-> lines]

\* The order of the thrusters in __init__, save_settings and the defaults
IdOrder == <<"fr", "fl", "rr", "rl", "fv", "rv">>

\* str.lower() on the field strings of the model
Lower(string) ==
    CASE string = "True" -> "true"
      [] string = "False" -> "false"
      [] OTHER -> string

positive_answers == {"ok", "okay", "yes", "y", "sure", "1", "true", "affirmative",
                     "alright", "t", "yeah", "yup", "ye", "yea"}
negative_answers == {"no", "nope", "negative", "nein", "0",
                     "n", "false", "nah", "nay", "negatory"}

\* thruster_pwm.py 278-299: is_bool
is_bool(string) ==
    IF Lower(string) \in positive_answers THEN PyTrue
    ELSE IF Lower(string) \in negative_answers THEN PyFalse
    ELSE None

\* float(string) on the field strings of the model; anything else raises ValueError
FloatTable ==
    [s \in {"0.0", "0.5", "1.0", "1.5", "0", "1", "-1"} |->
        CASE s = "0.0" -> Zero
          [] s = "0.5" -> Half
          [] s = "1.0" -> One
          [] s = "1.5" -> R(3, 2)
          [] s = "0" -> Zero
          [] s = "1" -> One
          [] s = "-1" -> MinusOne]
IsFloat(string) == string \in DOMAIN FloatTable
ParseFloat(string) == FloatTable[string]

\* f"{value}" of a float (its repr) for the multiplier values of the model
FormatFloat(q) ==
    CASE q = Zero -> "0.0"
      [] q = Half -> "0.5"
      [] q = One -> "1.0"
      [] q = R(3, 2) -> "1.5"
      [] OTHER -> "?"

\* f"{value}" of an int
FormatInt(n) ==
    IF n = 1 THEN "1" ELSE IF n = -1 THEN "-1" ELSE IF n = 0 THEN "0" ELSE "?"

\* f"{value}" of a bool
FormatBool(b) == IF b THEN "True" ELSE "False"

\* thruster_pwm.py 215-222, 239-241: the default thruster record as written
default_thruster_lines ==
    [i \in 1..6 |-> <<IdOrder[i], FormatBool(FALSE), FormatFloat(One)>>]

\* thruster_pwm.py 224-226, 263-265: the default frame record as written
default_frame_lines == << <<"multiplier", FormatFloat(One)>> >>

\* The value a settings_dict entry holds: a [bool, float] list, a float, or no entry
Absent == [kind |-> "absent", b |-> None, m |-> Zero]
ListEntry(b, m) == [kind |-> "list", b |-> b, m |-> m]
FloatEntry(v) == [kind |-> "float", b |-> None, m |-> v]

SettingKeys == ThrusterIds \cup {"multiplier"}
EmptySettings == [k \in SettingKeys |-> Absent]

\* thruster_pwm.py 248-250: parse the thruster lines from line i on
RECURSIVE ParseThrusterLines(_, _, _)
ParseThrusterLines(lines, i, settings_dict) ==
    IF i > Len(lines) THEN [exc |-> None, settings |-> settings_dict]
    ELSE LET line == lines[i] IN
         IF Len(line) < 3 THEN [exc |-> "IndexError", settings |-> settings_dict]
         ELSE IF ~IsFloat(line[3])
              THEN [exc |-> "ValueError", settings |-> settings_dict]
         ELSE ParseThrusterLines(lines, i + 1,
                [settings_dict EXCEPT
                    ![line[1]] = ListEntry(is_bool(line[2]), ParseFloat(line[3]))])

\* thruster_pwm.py 271-273: parse the frame lines from line i on
RECURSIVE ParseFrameLines(_, _, _)
ParseFrameLines(lines, i, settings_dict) ==
    IF i > Len(lines) THEN [exc |-> None, settings |-> settings_dict]
    ELSE LET line == lines[i] IN
         IF Len(line) < 2 THEN [exc |-> "IndexError", settings |-> settings_dict]
         ELSE IF ~IsFloat(line[2])
              THEN [exc |-> "ValueError", settings |-> settings_dict]
         ELSE ParseFrameLines(lines, i + 1,
                [settings_dict EXCEPT ![line[1]] = FloatEntry(ParseFloat(line[2]))])

\* thruster_pwm.py 231-244: the thruster file after the read-or-regenerate step;
\* a file shorter than 6 lines or missing is replaced by the defaults, and the
\* write fails where the profile folder does not exist
ThrusterFileAfterCheck(folder, tf) ==
    IF tf.exists /\ Len(tf.lines) >= 6 THEN [exc |-> None, file |-> tf]
    ELSE IF ~folder THEN [exc |-> "FileNotFoundError", file |-> tf]
    ELSE [exc |-> None, file |-> File(default_thruster_lines)]

\* thruster_pwm.py 255-268: the same for the frame file, which needs 1 line
FrameFileAfterCheck(folder, ff) ==
    IF ff.exists /\ Len(ff.lines) >= 1 THEN [exc |-> None, file |-> ff]
    ELSE IF ~folder THEN [exc |-> "FileNotFoundError", file |-> ff]
    ELSE [exc |-> None, file |-> File(default_frame_lines)]

\* thruster_pwm.py 270-275: what get_settings returns once the frame lines are read
ParsedFrameSettings(tfile, ffile, p2) ==
    [exc |-> p2.exc, settings |-> p2.settings,
     thruster_file |-> tfile, frame_file |-> ffile]

\* thruster_pwm.py 252-275: the frame half of get_settings, after the thruster
\* lines parsed into p1 from the (possibly regenerated) thruster file tfile
FrameSettings(folder, ff, tfile, p1, f1) ==
    IF f1.exc # None
    THEN [exc |-> f1.exc, settings |-> p1.settings,
          thruster_file |-> tfile, frame_file |-> ff]
    ELSE ParsedFrameSettings(tfile, f1.file, ParseFrameLines(f1.file.lines, 1, p1.settings))

\* thruster_pwm.py 246-268: get_settings once the thruster lines are read
ParsedThrusterSettings(folder, ff, tfile, p1) ==
    IF p1.exc # None
    THEN [exc |-> p1.exc, settings |-> p1.settings,
          thruster_file |-> tfile, frame_file |-> ff]
    ELSE FrameSettings(folder, ff, tfile, p1, FrameFileAfterCheck(folder, ff))

\* thruster_pwm.py 246-250: the thruster half of get_settings
ThrusterSettings(folder, tf, ff, t1) ==
    IF t1.exc # None
    THEN [exc |-> t1.exc, settings |-> EmptySettings,
          thruster_file |-> tf, frame_file |-> ff]
    ELSE ParsedThrusterSettings(folder, ff, t1.file,
                                ParseThrusterLines(t1.file.lines, 1, EmptySettings))

\* thruster_pwm.py 197-275: get_settings.  Returns the exception raised (or None),
\* the settings dictionary and the two files as the call leaves them.
get_settings(folder, tf, ff) ==
    ThrusterSettings(folder, tf, ff, ThrusterFileAfterCheck(folder, tf))

\* thruster_pwm.py 112-119: the first exception the reads of settings raise:
\* settings[id] on a missing key, settings[id][0] on a float
SettingsAccessError(settings) ==
    LET bad == { i \in 1..6 : settings[IdOrder[i]].kind # "list" } IN
    IF bad # {}
    THEN LET i == CHOOSE j \in bad : \A k \in bad : j <= k IN
         IF settings[IdOrder[i]].kind = "absent" THEN "KeyError" ELSE "TypeError"
    ELSE IF settings["multiplier"].kind = "absent" THEN "KeyError"
    ELSE None

NoThrusters == [id \in ThrusterIds |-> Thruster(PyFalse, One)]

\* thruster_pwm.py 111-119: the object built from what get_settings returned
FrameFromSettings(got, err) ==
    [exc |-> err,
     thr |-> IF err # None THEN NoThrusters
             ELSE [id \in ThrusterIds |->
                     Thruster(got.settings[id].b, got.settings[id].m)],
     overall_multiplier |-> IF err # None THEN One
                            ELSE got.settings["multiplier"].m,
     thruster_file |-> got.thruster_file,
     frame_file |-> got.frame_file]

\* thruster_pwm.py 109-119: the exception __init__ ends with, if any
InitError(got) ==
    IF got.exc # None THEN got.exc ELSE SettingsAccessError(got.settings)

\* thruster_pwm.py 95-119: FrameThrusters.__init__ on the profile folder
FrameThrusters(folder, tf, ff) ==
    LET Built(got) == FrameFromSettings(got, InitError(got))
    IN  Built(get_settings(folder, tf, ff))

\* thruster_pwm.py 184-189: f"{multiplier}" of a thruster's multiplier
FormatMultiplier(t) ==
    IF t.multiplier_int THEN FormatInt(Trunc(t.multiplier))
    ELSE FormatFloat(t.multiplier)

\* thruster_pwm.py 184-189: the six lines save_settings writes
saved_thruster_lines(t) ==
    [i \in 1..6 |-> <<IdOrder[i], FormatInt(t[IdOrder[i]].polarity_mask),
                      FormatMultiplier(t[IdOrder[i]])>>]

\* thruster_pwm.py 158-194: FrameThrusters.save_settings with the default
\* folder_name: the loop writes the same six lines to thruster_profile.fngr
\* and then to frame_profile.fngr
save_settings(folder, t, tf, ff) ==
    IF ~folder
    THEN [exc |-> "FileNotFoundError", thruster_file |-> tf, frame_file |-> ff]
    ELSE [exc |-> None,
          thruster_file |-> File(saved_thruster_lines(t)),
          frame_file |-> File(saved_thruster_lines(t))]

\* Six calls that store the scaled mix as each thruster's multiplier
thrust_set_multipliers(t, om, lateral_thrusters, vertical_thrusters) ==
    [id \in ThrusterIds |->
        IF id \in LateralIds
        THEN set_multiplier(t[id], RMul(lateral_thrusters[id], om))
        ELSE set_multiplier(t[id], RMul(vertical_thrusters[id], om))]

\* thruster_pwm.py 150-155: the six set_power calls of thrust_calc
thrust_set_powers(t, om, lateral_thrusters, vertical_thrusters) ==
    [id \in ThrusterIds |->
        IF id \in LateralIds
        THEN set_power(t[id], RMul(lateral_thrusters[id], om))
        ELSE set_power(t[id], RMul(vertical_thrusters[id], om))]

\* thruster_pwm.py 132-155: FrameThrusters.thrust_calc (the six new thrusters)
thrust_calc(t, om, x, y, z, pitch, yaw) ==
    thrust_set_powers(t, om, lateral_thruster_calc(x, y, yaw),
                      vertical_pwm_calc(z, pitch))

\* thruster_pwm.py 121-130: FrameThrusters.get_pwm
frame_get_pwm(t) == [id \in ThrusterIds |-> get_pwm(t[id])]

----------------------------------------------------------------------------
(* Controller: the joystick normalizer *)

\* Float division; Python raises ZeroDivisionError where b = 0
DivRaises(b) == b[1] = 0

\* controller.py 8-22: map_ranges; the value where the division is defined
map_ranges(x, from_range, to_range) ==
    LET delta_y == RSub(to_range[2], to_range[1])
        delta_x == RSub(from_range[2], from_range[1])
        slope == RDiv(delta_y, delta_x)
    IN  RAdd(RMul(slope, RSub(x, from_range[1])), to_range[1])

\* controller.py 20-21: map_ranges raises ZeroDivisionError on a zero-width range
map_ranges_raises(from_range) == DivRaises(RSub(from_range[2], from_range[1]))

\* A squeeze whose deadband test reads the value before it is clamped
squeeze_unclamped_test(x, _min, _max, deadband) ==
    LET c == RMin(RMax(x, _min), _max)
    IN  IF RLt(deadband, RAbs(x)) THEN c ELSE Zero

\* controller.py 25-40: squeeze
squeeze(x, _min, _max, deadband) ==
    LET c == RMin(RMax(x, _min), _max)
    IN  IF RLt(deadband, RAbs(c)) THEN c ELSE Zero

\* controller.py 248-263: combine_triggers
combine_triggers(trigger_1, trigger_2) ==
    RSub(RDiv(RAdd(trigger_2, One), RInt(2)), RDiv(RAdd(trigger_1, One), RInt(2)))

StickAxes == {"left_x", "left_y", "right_x", "right_y"}

\* controller.py 233: deadzone = .15
deadzone == R(15, 100)

Canonical == <<MinusOne, One>>

\* controller.py 68-84: Controller.__init__ without a config
DefaultController ==
    [center |-> [a \in StickAxes |-> Zero],
     range |-> [a \in StickAxes |-> Canonical]]

\* controller.py 103-119: Controller.load_config
load_config(config) == [center |-> config.center, range |-> config.range]

\* controller.py 221-225: the raw axis minus the calibrated center
Centered(c, sample, a) == RSub(sample.stick[a], c.center[a])

\* controller.py 216-245: Controller.get on a raw sample: the exception raised
get_raises(c, sample) ==
    IF \E a \in StickAxes : map_ranges_raises(c.range[a])
    THEN "ZeroDivisionError" ELSE None

\* controller.py 216-245: Controller.get on a raw sample: the dictionary returned
get(c, sample) ==
    [stick |-> [a \in StickAxes |->
                  squeeze(map_ranges(Centered(c, sample, a), c.range[a], Canonical),
                          MinusOne, One, deadzone)],
     triggers |-> combine_triggers(sample.trigger[1], sample.trigger[2]),
     a |-> sample.button[1],
     b |-> sample.button[2],
     x |-> sample.button[3],
     y |-> sample.button[4]]

\* One axis of a calibration profile: its center and observed range.  A sweep
\* in which the axis never moves leaves a zero-width range (controller.py 167-206).
AxisProfiles ==
    { <<Zero, Canonical>>,
      <<R(1, 4), <<R(-1, 2), Half>> >>,
      <<Zero, <<Zero, Zero>> >> }

CalibrationProfiles ==
    { [center |-> [a \in StickAxes |-> f[a][1]],
       range |-> [a \in StickAxes |-> f[a][2]]] : f \in [StickAxes -> AxisProfiles] }

\* What the triggers and buttons read in the samples of the model: all
\* released, or one trigger pressed with one pair of buttons down, or everything
AuxSamples ==
    { [trigger |-> <<MinusOne, MinusOne>>, button |-> <<FALSE, FALSE, FALSE, FALSE>>],
      [trigger |-> <<One, MinusOne>>, button |-> <<TRUE, FALSE, TRUE, FALSE>>],
      [trigger |-> <<MinusOne, One>>, button |-> <<FALSE, TRUE, FALSE, TRUE>>],
      [trigger |-> <<One, One>>, button |-> <<TRUE, TRUE, TRUE, TRUE>>] }

\* The raw samples of the model: every stick position on the grid
RawSamples ==
    { [stick |-> s, trigger |-> aux.trigger, button |-> aux.button] :
        s \in [StickAxes -> Grid(RawSteps)], aux \in AuxSamples }

NoSample ==
    [stick |-> [a \in StickAxes |-> Zero],
     trigger |-> [i \in 1..2 |-> MinusOne],
     button |-> [i \in 1..4 |-> FALSE]]

NoControls == get(DefaultController, NoSample)

NotPolled == [done |-> FALSE, value |-> NoControls]

----------------------------------------------------------------------------
(* The profiles a run may start from *)

PolarityFields == {"True", "False", "1", "-1", "maybe"}
MultiplierFields == {"1.0", "0.5", "1.5", "abc"}

\* Six well-formed lines that all carry the same two fields
UniformLines(p, m) == [i \in 1..6 |-> <<IdOrder[i], p, m>>]

\* The default record with line i cut down to its first n fields
CutLine(i, n) ==
    [default_thruster_lines EXCEPT ![i] = SubSeq(@, 1, n)]

ThrusterFiles ==
    {NoFile}
    \cup { File(SubSeq(default_thruster_lines, 1, k)) : k \in 0..5 }
    \cup { File(UniformLines(p, m)) : p \in PolarityFields, m \in MultiplierFields }
    \cup { File(CutLine(i, n)) : i \in 1..6, n \in 1..2 }

FrameFiles ==
    {NoFile, File(<<>>), File(<< <<"multiplier">> >>)}
    \cup { File(<< <<"multiplier", m>> >>) : m \in MultiplierFields }

\* Arguments of the direct Thruster calls
PowerArgs == { R(i, 2) : i \in (-3)..3 }
MultiplierArgs == { R(-1, 2), Half, R(3, 2) }

\* What save_settings is meant to persist, taken from the object
Snapshot(t, om) ==
    [mask |-> [id \in ThrusterIds |-> t[id].polarity_mask],
     mult |-> [id \in ThrusterIds |-> t[id].multiplier],
     overall |-> om]

NoLast ==
    [op |-> "none", t |-> None, arg |-> Zero,
     folder |-> FALSE, thruster_file |-> NoFile, frame_file |-> NoFile,
     snap |-> Snapshot(NoThrusters, One)]

AllocIdle ==
    /\ alloc_args = [x |-> Zero, y |-> Zero, r |-> Zero, z |-> Zero, pitch |-> Zero]
    /\ alloc_ret = [done |-> FALSE,
                    lateral |-> lateral_thruster_calc(Zero, Zero, Zero),
                    vertical |-> vertical_pwm_calc(Zero, Zero)]

\* thruster_pwm.py 105-106: folder_path for the default folder_name
DefaultFolderPath == "configs/default_thruster_profile"

FrameIdle ==
    /\ thr = NoThrusters
    /\ overall_multiplier = One
    /\ folder_path = None
    /\ folder_exists = FALSE
    /\ thruster_file = NoFile
    /\ frame_file = NoFile
    /\ frame = "none"
    /\ exc = None
    /\ last = NoLast
    /\ ops = 0

\* No call of squeeze is under way
NoSqueeze ==
    [x |-> Zero, _min |-> Zero, _max |-> Zero, deadband |-> Zero,
     done |-> FALSE, ret |-> Zero]

SqueezeIdle == squeeze_call = NoSqueeze

\* Controller.config() is not running
NotCalibrating == [state |-> "idle", n |-> 0]

CalIdle ==
    /\ cal_state = NotCalibrating
    /\ sweep = <<>>

CtrlIdle ==
    /\ ctrl = DefaultController
    /\ raw = NoSample
    /\ controls = NotPolled
    /\ ctrl_exc = None
    /\ SqueezeIdle
    /\ CalIdle

\* main.py 20-36: the keys of Main.instantaneous_controls
InstantaneousKeys ==
    {"a", "b", "x", "y", "left_bumper", "right_bumper", "back", "start", "home",
     "left_joystick_click", "right_joystick_click", "up", "down", "left", "right"}

\* main.py 14-56: the fields Main.__init__ sets, and a loop that has not begun
MainIdle ==
    /\ ctrl_invert_mask = 1
    /\ instantaneous_controls = [k \in InstantaneousKeys |-> FALSE]
    /\ sent = <<>>
    /\ main_exc = None
    /\ main_pc = "idle"
    /\ cycles = 0

----------------------------------------------------------------------------
(* Operations on a FrameThrusters object and its profile folder *)

\* FrameThrusters(): main.py 18, and again on every restart (main.py 223-226)
Construct ==
    /\ \E f \in {FrameThrusters(folder_exists, thruster_file, frame_file)} :
          /\ frame' = IF f.exc = None THEN "ok" ELSE "raised"
          /\ exc' = f.exc
          /\ thr' = f.thr
          /\ overall_multiplier' = f.overall_multiplier
          /\ folder_path' = DefaultFolderPath
          /\ thruster_file' = f.thruster_file
          /\ frame_file' = f.frame_file
    /\ last' = [last EXCEPT
                   !.op = IF last.op = "save_settings" THEN "reload" ELSE "construct",
                   !.t = None, !.arg = Zero,
                   !.folder = folder_exists,
                   !.thruster_file = thruster_file,
                   !.frame_file = frame_file]
    /\ UNCHANGED <<folder_exists, ops, alloc_vars, ctrl_vars, main_vars>>

CanOperate == frame = "ok" /\ ops < MaxOps

ThrustCalc ==
    /\ CanOperate
    /\ \E x, y, z, pitch, yaw \in Grid(ThrustSteps) :
          thr' = thrust_calc(thr, overall_multiplier, x, y, z, pitch, yaw)
    /\ last' = [last EXCEPT !.op = "thrust_calc", !.t = None, !.arg = Zero]
    /\ exc' = None
    /\ ops' = ops + 1
    /\ UNCHANGED <<overall_multiplier, folder_path, folder_exists, thruster_file, frame_file,
                   frame, alloc_vars, ctrl_vars, main_vars>>

SetPower ==
    /\ CanOperate
    /\ \E id \in ThrusterIds, p \in PowerArgs :
          /\ thr' = [thr EXCEPT ![id] = set_power(thr[id], p)]
          /\ last' = [last EXCEPT !.op = "set_power", !.t = id, !.arg = p]
    /\ exc' = None
    /\ ops' = ops + 1
    /\ UNCHANGED <<overall_multiplier, folder_path, folder_exists, thruster_file, frame_file,
                   frame, alloc_vars, ctrl_vars, main_vars>>

SetMultiplier ==
    /\ CanOperate
    /\ \E id \in ThrusterIds, m \in MultiplierArgs :
          /\ thr' = [thr EXCEPT ![id] = set_multiplier(thr[id], m)]
          /\ last' = [last EXCEPT !.op = "set_multiplier", !.t = id, !.arg = m]
    /\ exc' = None
    /\ ops' = ops + 1
    /\ UNCHANGED <<overall_multiplier, folder_path, folder_exists, thruster_file, frame_file,
                   frame, alloc_vars, ctrl_vars, main_vars>>

ReversePolarity ==
    /\ CanOperate
    /\ \E id \in ThrusterIds :
          /\ thr' = [thr EXCEPT ![id] = reverse_polarity(thr[id])]
          /\ last' = [last EXCEPT !.op = "reverse_polarity", !.t = id, !.arg = Zero]
    /\ exc' = None
    /\ ops' = ops + 1
    /\ UNCHANGED <<overall_multiplier, folder_path, folder_exists, thruster_file, frame_file,
                   frame, alloc_vars, ctrl_vars, main_vars>>

SaveSettings ==
    /\ CanOperate
    /\ LET s == save_settings(folder_exists, thr, thruster_file, frame_file) IN
          /\ exc' = s.exc
          /\ thruster_file' = s.thruster_file
          /\ frame_file' = s.frame_file
    /\ last' = [last EXCEPT !.op = "save_settings", !.t = None, !.arg = Zero,
                            !.snap = Snapshot(thr, overall_multiplier)]
    /\ ops' = ops + 1
    /\ UNCHANGED <<thr, overall_multiplier, folder_path, folder_exists, frame,
                   alloc_vars, ctrl_vars, main_vars>>

\* main.py 122: mod_inc = .05
mod_inc == R(5, 100)

\* main.py 126, 144-149: handle_input, given controls that carry the bumper
\* and directional-pad keys, on a left bumper press with no pad button held
DecreaseOverall ==
    /\ CanOperate
    /\ overall_multiplier' = RMax(RSub(overall_multiplier, mod_inc), Zero)
    /\ last' = [last EXCEPT !.op = "left_bumper", !.t = None, !.arg = Zero]
    /\ exc' = None
    /\ ops' = ops + 1
    /\ UNCHANGED <<thr, folder_path, folder_exists, thruster_file, frame_file,
                   frame, alloc_vars, ctrl_vars, main_vars>>

\* main.py 152, 170-175: the same on a right bumper press
IncreaseOverall ==
    /\ CanOperate
    /\ overall_multiplier' = RMin(RAdd(overall_multiplier, mod_inc), One)
    /\ last' = [last EXCEPT !.op = "right_bumper", !.t = None, !.arg = Zero]
    /\ exc' = None
    /\ ops' = ops + 1
    /\ UNCHANGED <<thr, folder_path, folder_exists, thruster_file, frame_file,
                   frame, alloc_vars, ctrl_vars, main_vars>>

----------------------------------------------------------------------------
(* Spec: the thrusters of a frame loaded from a profile that loads *)

LoadableThrusterFiles ==
    {NoFile} \cup { File(UniformLines(p, m)) : p \in {"True", "False"},
                                               m \in {"1.0", "0.5"} }
LoadableFrameFiles ==
    { File(<< <<"multiplier", m>> >>) : m \in {"1.0", "0.5", "1.5"} }

Init ==
    /\ \E tf \in LoadableThrusterFiles, ff \in LoadableFrameFiles :
          LET f == FrameThrusters(TRUE, tf, ff) IN
          /\ f.exc = None
          /\ thr = f.thr
          /\ overall_multiplier = f.overall_multiplier
          /\ folder_path = DefaultFolderPath
          /\ thruster_file = f.thruster_file
          /\ frame_file = f.frame_file
          /\ last = [NoLast EXCEPT !.op = "construct", !.folder = TRUE,
                                   !.thruster_file = tf, !.frame_file = ff]
    /\ folder_exists = TRUE
    /\ frame = "ok"
    /\ exc = None
    /\ ops = 0
    /\ AllocIdle
    /\ CtrlIdle
    /\ MainIdle

Next ==
    \/ ThrustCalc
    \/ SetPower
    \/ SetMultiplier
    \/ ReversePolarity

Spec == Init /\ [][Next]_vars

----------------------------------------------------------------------------
(* SpecProfile: the profile folder across construction and save_settings *)

ProfileInit ==
    /\ thr = NoThrusters
    /\ overall_multiplier = One
    /\ folder_path = None
    /\ folder_exists \in BOOLEAN
    /\ thruster_file \in (IF folder_exists THEN ThrusterFiles ELSE {NoFile})
    /\ frame_file \in (IF folder_exists THEN FrameFiles ELSE {NoFile})
    /\ frame = "none"
    /\ exc = None
    /\ last = NoLast
    /\ ops = 0
    /\ AllocIdle
    /\ CtrlIdle
    /\ MainIdle

ProfileNext ==
    \/ Construct
    \/ SetMultiplier
    \/ ReversePolarity
    \/ SaveSettings
    \/ DecreaseOverall
    \/ IncreaseOverall

SpecProfile == ProfileInit /\ [][ProfileNext]_vars

----------------------------------------------------------------------------
(* SpecAlloc: calls of the two allocator functions *)

AllocInit ==
    /\ alloc_args \in [x : Grid(AxisSteps), y : Grid(AxisSteps), r : Grid(AxisSteps),
                       z : Grid(AxisSteps), pitch : Grid(AxisSteps)]
    /\ alloc_ret = [done |-> FALSE,
                    lateral |-> lateral_thruster_calc(Zero, Zero, Zero),
                    vertical |-> vertical_pwm_calc(Zero, Zero)]
    /\ FrameIdle
    /\ CtrlIdle
    /\ MainIdle

\* thruster_pwm.py 147-148: the two allocator calls on the arguments
Allocate ==
    /\ ~alloc_ret.done
    /\ alloc_ret' =
          [done |-> TRUE,
           lateral |-> lateral_thruster_calc(alloc_args.x, alloc_args.y, alloc_args.r),
           vertical |-> vertical_pwm_calc(alloc_args.z, alloc_args.pitch)]
    /\ UNCHANGED <<alloc_args, frame_vars, ctrl_vars, main_vars>>

AllocNext == Allocate

SpecAlloc == AllocInit /\ [][AllocNext]_vars

----------------------------------------------------------------------------
(* SpecController: a Controller, its calibration profile and get() *)

\* controller.py 68-84: Controller(config) for a calibration profile, and the
\* joystick at some position
ControllerInit ==
    /\ \E config \in CalibrationProfiles : ctrl = load_config(config)
    /\ raw \in RawSamples
    /\ controls = NotPolled
    /\ ctrl_exc = None
    /\ SqueezeIdle
    /\ CalIdle
    /\ FrameIdle
    /\ AllocIdle
    /\ MainIdle

\* main.py 62-63: a poll of the controller
Get ==
    /\ ~controls.done
    /\ ctrl_exc = None
    /\ ctrl_exc' = get_raises(ctrl, raw)
    /\ controls' = IF get_raises(ctrl, raw) = None
                   THEN [done |-> TRUE, value |-> get(ctrl, raw)]
                   ELSE NotPolled
    /\ UNCHANGED <<ctrl, raw, squeeze_call, cal_state, sweep, frame_vars, alloc_vars,
                   main_vars>>

ControllerNext == Get

SpecController == ControllerInit /\ [][ControllerNext]_vars

----------------------------------------------------------------------------
(* SpecThrust: one thrust_calc call, and the allocator calls it makes, on a   *)
(* frame whose thrusters and overall_multiplier come from a profile           *)

ThrustInit ==
    /\ \E tf \in {NoFile, File(UniformLines("True", "0.5"))},
          ff \in { File(<< <<"multiplier", m>> >>) : m \in {"0.5", "1.5"} } :
          LET f == FrameThrusters(TRUE, tf, ff) IN
          /\ f.exc = None
          /\ thr = f.thr
          /\ overall_multiplier = f.overall_multiplier
          /\ folder_path = DefaultFolderPath
          /\ thruster_file = f.thruster_file
          /\ frame_file = f.frame_file
          /\ last = [NoLast EXCEPT !.op = "construct", !.folder = TRUE,
                                   !.thruster_file = tf, !.frame_file = ff]
    /\ folder_exists = TRUE
    /\ frame = "ok"
    /\ exc = None
    /\ ops = 0
    /\ alloc_args \in [x : Grid(AxisSteps), y : Grid(AxisSteps), r : Grid(AxisSteps),
                       z : Grid(AxisSteps), pitch : Grid(AxisSteps)]
    /\ alloc_ret = [done |-> FALSE,
                    lateral |-> lateral_thruster_calc(Zero, Zero, Zero),
                    vertical |-> vertical_pwm_calc(Zero, Zero)]
    /\ CtrlIdle
    /\ MainIdle

\* thruster_pwm.py 132-155: thrust_calc(x, y, z, pitch, yaw) on the arguments
ThrustCalcCall ==
    /\ frame = "ok"
    /\ last.op # "thrust_calc"
    /\ thr' = thrust_calc(thr, overall_multiplier, alloc_args.x, alloc_args.y,
                          alloc_args.z, alloc_args.pitch, alloc_args.r)
    /\ last' = [last EXCEPT !.op = "thrust_calc", !.t = None, !.arg = Zero]
    /\ exc' = None
    /\ ops' = ops + 1
    /\ UNCHANGED <<overall_multiplier, folder_path, folder_exists, thruster_file,
                   frame_file, frame, alloc_vars, ctrl_vars, main_vars>>

ThrustNext ==
    \/ ThrustCalcCall
    \/ Allocate

SpecThrust == ThrustInit /\ [][ThrustNext]_vars

----------------------------------------------------------------------------
(* SpecCalibration: Controller.config(), the calibration utility.             *)
(* cal_state.state is where config() is: "WAIT_FORWARD" (controller.py        *)
(* 128-134), "CENTER_SAMPLING" (146-153, n iterations done),                  *)
(* "SWEEP_SAMPLING" (177-208) or "DONE".  raw is what the joystick read at    *)
(* the last update(); get_left() and get_right() return it until the next.    *)

\* float("inf") and -float("inf") as extended rationals: RLt orders them
\* above and below every number
Inf == <<1, 0>>
NegInf == <<-1, 0>>

\* controller.py 146: range(20)
CenterSamples == 20

\* What the joystick may read at an update() of config(): any stick position,
\* triggers and buttons released
CalSamples ==
    { [stick |-> s, trigger |-> NoSample.trigger, button |-> NoSample.button] :
        s \in [StickAxes -> Grid(RawSteps)] }

\* What the joystick reads once the sticks are released: the right stick and
\* the left stick's y axis rest at 0, the left stick's x axis rests anywhere
RestSamples ==
    { s \in CalSamples :
        s.stick.left_y = Zero /\ s.stick.right_x = Zero /\ s.stick.right_y = Zero }

\* controller.py 128-133: the condition the while loop negates; a float is
\* truthy where it is not 0
forward_pressed(sample) ==
    /\ sample.stick.left_x # Zero
    /\ sample.stick.left_y # Zero
    /\ sample.stick.right_x # Zero
    /\ sample.stick.left_y # Zero

\* controller.py 182-186: the raw axes minus the new centers
sweep_centered(c, sample) == [a \in StickAxes |-> Centered(c, sample, a)]

\* controller.py 188-191: the running max and min of left x
sweep_left_x(range, v) ==
    LET hi == IF RLt(range.left_x[2], v.left_x) THEN v.left_x ELSE range.left_x[2]
        lo == IF RLt(v.left_x, range.left_x[1]) THEN v.left_x ELSE range.left_x[1]
    IN  [range EXCEPT !.left_x = <<lo, hi>>]

\* controller.py 193-196: left y; its low end is compared with left_x_range[0]
sweep_left_y(range, v) ==
    LET hi == IF RLt(range.left_y[2], v.left_y) THEN v.left_y ELSE range.left_y[2]
        lo == IF RLt(v.left_y, range.left_x[1]) THEN v.left_y ELSE range.left_y[1]
    IN  [range EXCEPT !.left_y = <<lo, hi>>]

\* controller.py 198-201: right x; its low end is compared with left_x_range[0]
sweep_right_x(range, v) ==
    LET hi == IF RLt(range.right_x[2], v.right_x) THEN v.right_x ELSE range.right_x[2]
        lo == IF RLt(v.right_x, range.left_x[1]) THEN v.right_x ELSE range.right_x[1]
    IN  [range EXCEPT !.right_x = <<lo, hi>>]

\* controller.py 203-206: the running max and min of right y
sweep_right_y(range, v) ==
    LET hi == IF RLt(range.right_y[2], v.right_y) THEN v.right_y ELSE range.right_y[2]
        lo == IF RLt(v.right_y, range.right_y[1]) THEN v.right_y ELSE range.right_y[1]
    IN  [range EXCEPT !.right_y = <<lo, hi>>]

\* controller.py 188-206: one iteration's updates of the four ranges, in order
sweep_ranges(range, v) ==
    sweep_right_y(sweep_right_x(sweep_left_y(sweep_left_x(range, v), v), v), v)

CalibrationInit ==
    /\ ctrl = DefaultController
    /\ raw \in CalSamples
    /\ cal_state = [state |-> "WAIT_FORWARD", n |-> 0]
    /\ sweep = <<>>
    /\ controls = NotPolled
    /\ ctrl_exc = None
    /\ SqueezeIdle
    /\ FrameIdle
    /\ AllocIdle
    /\ MainIdle

\* controller.py 128-134: the sticks are not forward yet; update() and test again
WaitForward ==
    /\ cal_state.state = "WAIT_FORWARD"
    /\ ~forward_pressed(raw)
    /\ raw' \in CalSamples
    /\ UNCHANGED <<ctrl, controls, ctrl_exc, squeeze_call, cal_state, sweep,
                   frame_vars, alloc_vars, main_vars>>

\* controller.py 128-144: the while loop ends; after the two sleeps the centers
\* are reset to 0
LeaveWaitForward ==
    /\ cal_state.state = "WAIT_FORWARD"
    /\ forward_pressed(raw)
    /\ cal_state' = [state |-> "CENTER_SAMPLING", n |-> 0]
    /\ ctrl' = [ctrl EXCEPT !.center = [a \in StickAxes |-> Zero]]
    /\ UNCHANGED <<raw, controls, ctrl_exc, squeeze_call, sweep,
                   frame_vars, alloc_vars, main_vars>>

\* controller.py 146-153: one iteration of the center loop: update() and add the
\* four axes to the centers.  The released sticks read a rest position, the
\* same one throughout.
CenterSample ==
    /\ cal_state.state = "CENTER_SAMPLING"
    /\ cal_state.n < CenterSamples
    /\ raw' \in (IF cal_state.n = 0 THEN RestSamples ELSE {raw})
    /\ ctrl' = [ctrl EXCEPT
                   !.center = [a \in StickAxes |-> RAdd(ctrl.center[a], raw'.stick[a])]]
    /\ cal_state' = [cal_state EXCEPT !.n = cal_state.n + 1]
    /\ UNCHANGED <<controls, ctrl_exc, squeeze_call, sweep,
                   frame_vars, alloc_vars, main_vars>>

\* controller.py 155-175: the sums become the centers, the ranges are emptied
\* and the sweep begins
StartSweep ==
    /\ cal_state.state = "CENTER_SAMPLING"
    /\ cal_state.n = CenterSamples
    /\ ctrl' = [center |-> [a \in StickAxes |->
                               RDiv(ctrl.center[a], RInt(CenterSamples))],
                range |-> [a \in StickAxes |-> <<Inf, NegInf>>]]
    /\ cal_state' = [state |-> "SWEEP_SAMPLING", n |-> 0]
    /\ sweep' = <<>>
    /\ UNCHANGED <<raw, controls, ctrl_exc, squeeze_call,
                   frame_vars, alloc_vars, main_vars>>

\* controller.py 177-208: one iteration of the sweep loop
SweepSample ==
    /\ cal_state.state = "SWEEP_SAMPLING"
    /\ Len(sweep) < MaxSweep
    /\ raw' \in CalSamples
    /\ ctrl' = [ctrl EXCEPT
                   !.range = sweep_ranges(ctrl.range, sweep_centered(ctrl, raw'))]
    /\ sweep' = Append(sweep, sweep_centered(ctrl, raw'))
    /\ UNCHANGED <<controls, ctrl_exc, squeeze_call, cal_state,
                   frame_vars, alloc_vars, main_vars>>

\* controller.py 177, 210-214: the 10 seconds are over; with 0.02 s between
\* iterations the loop has run at least once
FinishSweep ==
    /\ cal_state.state = "SWEEP_SAMPLING"
    /\ Len(sweep) >= 1
    /\ cal_state' = [cal_state EXCEPT !.state = "DONE"]
    /\ UNCHANGED <<ctrl, raw, controls, ctrl_exc, squeeze_call, sweep,
                   frame_vars, alloc_vars, main_vars>>

CalibrationNext ==
    \/ WaitForward
    \/ LeaveWaitForward
    \/ CenterSample
    \/ StartSweep
    \/ SweepSample
    \/ FinishSweep

SpecCalibration == CalibrationInit /\ [][CalibrationNext]_vars

----------------------------------------------------------------------------
(* SpecMain: the control loop of Main.main() *)

\* controller.py 235-245: the keys of the dictionary Controller.get returns
ControlsKeys ==
    {"left_x", "left_y", "right_x", "right_y", "triggers", "a", "b", "x", "y"}

\* controller.py 235-245: that dictionary, from the value get returned
controls_dict(value) ==
    [k \in ControlsKeys |->
        CASE k \in StickAxes -> value.stick[k]
          [] k = "triggers" -> value.triggers
          [] k = "a" -> value.a
          [] k = "b" -> value.b
          [] k = "x" -> value.x
          [] k = "y" -> value.y]

\* main.py 111-117: the x button inverts the controls on its press
handle_x(d, inst, mask) ==
    IF d["x"] /\ ~inst["x"] THEN mask * (-1) ELSE mask

\* main.py 129-143: the thruster the directional pad selects, or None
pad_thruster(d) ==
    IF d["up"] THEN (IF d["right"] THEN "fr" ELSE IF d["left"] THEN "fl" ELSE "fv")
    ELSE IF d["down"]
         THEN (IF d["right"] THEN "rr" ELSE IF d["left"] THEN "rl" ELSE "rv")
    ELSE None

\* main.py 126-195: the bumper and back branches, on the thrusters
tuned_thrusters(d, inst, t) ==
    LET id == pad_thruster(d) IN
    IF d["left_bumper"] /\ ~inst["left_bumper"]
    THEN IF id = None THEN t
         ELSE [t EXCEPT ![id] = set_power(t[id], RSub(get_power(t[id]), mod_inc))]
    ELSE IF d["right_bumper"] /\ ~inst["right_bumper"]
    THEN IF id = None THEN t
         ELSE [t EXCEPT ![id] = set_power(t[id], RAdd(get_power(t[id]), mod_inc))]
    ELSE IF d["back"] /\ ~inst["back"]
    THEN IF id = None THEN t ELSE [t EXCEPT ![id] = reverse_polarity(t[id])]
    ELSE t

\* main.py 126-175: the bumper branches, on overall_multiplier
tuned_overall(d, inst, om) ==
    IF d["left_bumper"] /\ ~inst["left_bumper"]
    THEN IF pad_thruster(d) = None THEN RMax(RSub(om, mod_inc), Zero) ELSE om
    ELSE IF d["right_bumper"] /\ ~inst["right_bumper"]
    THEN IF pad_thruster(d) = None THEN RMin(RAdd(om, mod_inc), One) ELSE om
    ELSE om

\* main.py 97-216: Main.handle_input on the dictionary d.  d["left_bumper"]
\* (main.py 126) raises KeyError where d has no such key, after the x button
\* has been handled; every key of instantaneous_controls is read by line 216.
handle_input(d, inst, mask, t, om, folder, tf, ff) ==
    IF ~(InstantaneousKeys \subseteq DOMAIN d)
    THEN [exc |-> "KeyError", ctrl_invert_mask |-> handle_x(d, inst, mask),
          thr |-> t, overall_multiplier |-> om, instantaneous_controls |-> inst,
          thruster_file |-> tf, frame_file |-> ff]
    ELSE LET t2 == tuned_thrusters(d, inst, t)
             saved == IF d["start"] /\ ~inst["start"]
                      THEN save_settings(folder, t2, tf, ff)
                      ELSE [exc |-> None, thruster_file |-> tf, frame_file |-> ff]
         IN  [exc |-> saved.exc, ctrl_invert_mask |-> handle_x(d, inst, mask),
              thr |-> t2, overall_multiplier |-> tuned_overall(d, inst, om),
              instantaneous_controls |->
                  IF saved.exc = None THEN [k \in InstantaneousKeys |-> d[k]]
                  ELSE inst,
              thruster_file |-> saved.thruster_file,
              frame_file |-> saved.frame_file]

\* main.py 67-73: the thrust_calc call of the loop on the controls
main_thrust_calc(d, mask, t, om) ==
    thrust_calc(t, om,
                RMul(d["left_x"], RInt(mask)), RMul(d["left_y"], RInt(mask)),
                d["triggers"], RMul(d["right_y"], RInt(mask)), d["right_x"])

\* main.py 76-87: the data handed to PiConnection.send
main_data(t) == [pwm |-> frame_get_pwm(t), msg |-> <<>>, restart |-> FALSE]

\* main.py 14-56: Main(): a default Controller and a FrameThrusters built from a
\* profile that loads
MainInit ==
    /\ \E tf \in LoadableThrusterFiles, ff \in LoadableFrameFiles :
          LET f == FrameThrusters(TRUE, tf, ff) IN
          /\ f.exc = None
          /\ thr = f.thr
          /\ overall_multiplier = f.overall_multiplier
          /\ folder_path = DefaultFolderPath
          /\ thruster_file = f.thruster_file
          /\ frame_file = f.frame_file
          /\ last = [NoLast EXCEPT !.op = "construct", !.folder = TRUE,
                                   !.thruster_file = tf, !.frame_file = ff]
    /\ folder_exists = TRUE
    /\ frame = "ok"
    /\ exc = None
    /\ ops = 0
    /\ ctrl = DefaultController
    /\ raw = NoSample
    /\ controls = NotPolled
    /\ ctrl_exc = None
    /\ SqueezeIdle
    /\ CalIdle
    /\ AllocIdle
    /\ ctrl_invert_mask = 1
    /\ instantaneous_controls = [k \in InstantaneousKeys |-> FALSE]
    /\ sent = <<>>
    /\ main_exc = None
    /\ main_pc = "poll"
    /\ cycles = 0

\* main.py 62-63: self.joy.update() and controls = self.joy.get()
MainPoll ==
    /\ main_pc = "poll"
    /\ cycles < MaxCycles
    /\ raw' \in RawSamples
    /\ ctrl_exc' = get_raises(ctrl, raw')
    /\ controls' = IF get_raises(ctrl, raw') = None
                   THEN [done |-> TRUE, value |-> get(ctrl, raw')]
                   ELSE NotPolled
    /\ main_exc' = get_raises(ctrl, raw')
    /\ main_pc' = IF get_raises(ctrl, raw') = None THEN "handle" ELSE "raised"
    /\ cycles' = cycles + 1
    /\ UNCHANGED <<ctrl, squeeze_call, cal_state, sweep, frame_vars, alloc_vars,
                   ctrl_invert_mask, instantaneous_controls, sent>>

\* main.py 66-90: the rest of the iteration: handle_input, thrust_calc, get_pwm
\* and send.  An exception of handle_input leaves main() (main.py 225-249
\* catches none of KeyError).
MainHandle ==
    /\ main_pc = "handle"
    /\ \E d \in {controls_dict(controls.value)} :
       \E h \in {handle_input(d, instantaneous_controls, ctrl_invert_mask, thr,
                              overall_multiplier, folder_exists, thruster_file,
                              frame_file)} :
          /\ ctrl_invert_mask' = h.ctrl_invert_mask
          /\ instantaneous_controls' = h.instantaneous_controls
          /\ overall_multiplier' = h.overall_multiplier
          /\ thruster_file' = h.thruster_file
          /\ frame_file' = h.frame_file
          /\ main_exc' = h.exc
          /\ IF h.exc # None
             THEN /\ thr' = h.thr
                  /\ sent' = sent
                  /\ main_pc' = "raised"
             ELSE /\ thr' = main_thrust_calc(d, h.ctrl_invert_mask, h.thr,
                                             h.overall_multiplier)
                  /\ sent' = Append(sent, main_data(thr'))
                  /\ main_pc' = "poll"
    /\ UNCHANGED <<folder_path, folder_exists, frame, exc, last, ops, alloc_vars,
                   ctrl_vars, cycles>>

MainNext ==
    \/ MainPoll
    \/ MainHandle

SpecMain == MainInit /\ [][MainNext]_vars

----------------------------------------------------------------------------
(* SpecSqueeze: calls of squeeze *)

\* The [_min, _max] ranges and the deadbands squeeze is called with
SqueezeRanges ==
    { <<MinusOne, One>>, <<R(-1, 2), Half>>, <<Zero, One>>,
      <<R(1, 4), R(1, 4)>>, <<MinusOne, R(-1, 2)>> }
SqueezeDeadbands == { Zero, R(1, 10), R(15, 100), Half, One }

SqueezeInit ==
    /\ \E i \in (-SqueezeSpan)..SqueezeSpan, range \in SqueezeRanges,
          deadband \in SqueezeDeadbands :
          squeeze_call = [x |-> R(i, 20), _min |-> range[1], _max |-> range[2],
                          deadband |-> deadband, done |-> FALSE, ret |-> Zero]
    /\ ctrl = DefaultController
    /\ raw = NoSample
    /\ controls = NotPolled
    /\ ctrl_exc = None
    /\ CalIdle
    /\ FrameIdle
    /\ AllocIdle
    /\ MainIdle

\* controller.py 236-239: a call of squeeze on the arguments
Squeeze ==
    /\ ~squeeze_call.done
    /\ squeeze_call' =
          [squeeze_call EXCEPT
              !.done = TRUE,
              !.ret = squeeze(squeeze_call.x, squeeze_call._min, squeeze_call._max,
                              squeeze_call.deadband)]
    /\ UNCHANGED <<ctrl, raw, controls, ctrl_exc, cal_state, sweep, frame_vars,
                   alloc_vars, main_vars>>

SqueezeNext == Squeeze

SpecSqueeze == SqueezeInit /\ [][SqueezeNext]_vars

----------------------------------------------------------------------------
(* Properties of the thrusters, checked under Spec *)

InPulseRange(t) ==
    /\ t.pulse_range[1] <= get_pwm(t)
    /\ get_pwm(t) <= t.pulse_range[2]

\* C1: in every state of a constructed frame, reached by thrust_calc, set_power,
\* set_multiplier and reverse_polarity, get_pwm() of each of the six thrusters
\* lies within the thruster's pulse range (1100..1900 by default).
C1_PwmWithinPulseRange ==
    frame = "ok" => \A id \in ThrusterIds : InPulseRange(thr[id])

\* The pulse width section 4.6 gives: pulse_min + 0.5*(pulse_max - pulse_min)*
\* (effective + 1), truncated
StatedPwm(t) ==
    LET effective == RMul(RMul(t.power, RInt(t.polarity_mask)), t.multiplier)
        half_width == RMul(Half, RInt(t.pulse_range[2] - t.pulse_range[1]))
    IN  Trunc(RAdd(RInt(t.pulse_range[1]), RMul(half_width, RAdd(effective, One))))

\* C2: get_pwm() returns trunc(pulse_min + 0.5*(pulse_max - pulse_min)*
\* (effective + 1)) with effective = power * polarity_mask * multiplier; so a
\* thruster at power 0 with the default range reads 1500.
C2_PwmFormula ==
    frame = "ok" => \A id \in ThrusterIds : get_pwm(thr[id]) = StatedPwm(thr[id])

\* C3: after set_power(p) the stored power is p clamped to [-1, 1], so a
\* negative p in [-1, 0) is stored unchanged.
C3_SetPowerClamps ==
    (frame = "ok" /\ last.op = "set_power")
        => get_power(thr[last.t]) = RMin(RMax(last.arg, MinusOne), One)

\* The signed offset of get_pwm() from the neutral midpoint of the pulse range
PwmOffset(t) == get_pwm(t) - ((t.pulse_range[1] + t.pulse_range[2]) \div 2)

\* C11: a reverse_polarity() call negates the signed offset of get_pwm() from the
\* neutral midpoint of the pulse range (1500 by default), for the same stored
\* power and multiplier, up to one microsecond of integer truncation.
C11_ReversePolarityFlipsPwm ==
    [][(last'.op = "reverse_polarity" /\ ops' = ops + 1)
          => Abs(PwmOffset(thr'[last'.t]) + PwmOffset(thr[last'.t])) <= 1]_vars


----------------------------------------------------------------------------
(* Properties of thrust_calc, checked under SpecThrust *)

\* What thrust_calc is to leave alone in a thruster
Tuning(t) ==
    [polarity_mask |-> t.polarity_mask, multiplier |-> t.multiplier,
     pulse_range |-> t.pulse_range]

\* C18: a thrust_calc call leaves each thruster's polarity_mask, multiplier and
\* pulse_range, the frame's overall_multiplier and its profile folder path as
\* they were; a call of the two allocator functions leaves the thrusters and
\* the frame as they were.
C18_ThrustCalcChangesOnlyPower ==
    [][/\ (last'.op = "thrust_calc" /\ last.op # "thrust_calc") =>
             /\ \A id \in ThrusterIds : Tuning(thr'[id]) = Tuning(thr[id])
             /\ overall_multiplier' = overall_multiplier
             /\ folder_path' = folder_path
       /\ (alloc_ret'.done /\ ~alloc_ret.done) =>
             /\ thr' = thr
             /\ overall_multiplier' = overall_multiplier
             /\ folder_path' = folder_path]_vars

\* A reversed thruster of multiplier 1/2 on a frame of overall_multiplier 3/2,
\* given power by thrust_calc
C18_Witness ==
    /\ last.op = "thrust_calc"
    /\ overall_multiplier = R(3, 2)
    /\ thr["fr"].polarity_mask = -1
    /\ thr["fr"].multiplier = Half
    /\ RLt(Zero, thr["fr"].power)
    /\ RLt(thr["fr"].power, One)

----------------------------------------------------------------------------
(* Properties of the allocator, checked under SpecAlloc *)

InUnitRange(v) == RLe(MinusOne, v) /\ RLe(v, One)

MaxAbs4(m) == RMax(RMax(RAbs(m.fr), RAbs(m.fl)), RMax(RAbs(m.rr), RAbs(m.rl)))

\* C4: for all x, y, r in [-1, 1], each of fr, fl, rr, rl returned by
\* lateral_thruster_calc(x, y, r) lies in [-1, 1].
C4_LateralInUnitRange ==
    alloc_ret.done => \A id \in LateralIds : InUnitRange(alloc_ret.lateral[id])

\* A call whose raw mix exceeds magnitude 1 on a rear thruster, scaled back to 1
C4_Witness ==
    /\ alloc_ret.done
    /\ RLt(One, RAbs(lateral_mix(alloc_args.x, alloc_args.y, alloc_args.r).rr))
    /\ RAbs(alloc_ret.lateral.rr) = One
    /\ RLt(RAbs(alloc_ret.lateral.fr), One)

\* C5: when two of x, y, r are 0 and the third is v, the largest magnitude among
\* fr, fl, rr, rl equals |v|.
C5_SingleAxisMagnitude ==
    alloc_ret.done =>
        /\ (alloc_args.y = Zero /\ alloc_args.r = Zero)
              => MaxAbs4(alloc_ret.lateral) = RAbs(alloc_args.x)
        /\ (alloc_args.x = Zero /\ alloc_args.r = Zero)
              => MaxAbs4(alloc_ret.lateral) = RAbs(alloc_args.y)
        /\ (alloc_args.x = Zero /\ alloc_args.y = Zero)
              => MaxAbs4(alloc_ret.lateral) = RAbs(alloc_args.r)

\* A sub-unit yaw request alone, passed through at its own magnitude
C5_Witness ==
    /\ alloc_ret.done
    /\ alloc_args.x = Zero /\ alloc_args.y = Zero
    /\ RLt(Zero, RAbs(alloc_args.r)) /\ RLt(RAbs(alloc_args.r), One)
    /\ MaxAbs4(alloc_ret.lateral) = RAbs(alloc_args.r)

\* The lateral mix as section 4.5 writes it
StatedLateral(x, y, r) ==
    LET fr == RAdd(RAdd(RNeg(x), y), r)
        fl == RSub(RAdd(x, y), r)
        rr == RAdd(RAdd(RNeg(x), y), r)
        rl == RSub(RAdd(x, y), r)
        d == RMax(RMax(RMax(RMax(RAbs(fr), RAbs(fl)), RAbs(rr)), RAbs(rl)), One)
    IN  [fr |-> RDiv(fr, d), fl |-> RDiv(fl, d), rr |-> RDiv(rr, d), rl |-> RDiv(rl, d)]

\* C6: lateral_thruster_calc(x, y, r) returns FR = -x + y + r, FL = +x + y - r,
\* RR = -x + y + r, RL = +x + y - r, each divided by max(|FR|,|FL|,|RR|,|RL|,1).
C6_LateralSignPattern ==
    alloc_ret.done =>
        alloc_ret.lateral = StatedLateral(alloc_args.x, alloc_args.y, alloc_args.r)

\* C7: vertical_pwm_calc(z, p) returns fv = (z - p)/d and rv = (z + p)/d with
\* d = max(|z - p|, |z + p|, 1); both lie in [-1, 1]; (0,0) gives (0,0), (1,0)
\* gives (1,1) and (0,1) gives (-1,1).
C7_VerticalMix ==
    alloc_ret.done =>
        LET z == alloc_args.z
            p == alloc_args.pitch
            d == RMax(RMax(RAbs(RSub(z, p)), RAbs(RAdd(z, p))), One)
            fv == alloc_ret.vertical.fv
            rv == alloc_ret.vertical.rv
        IN  /\ RMul(fv, d) = RSub(z, p)
            /\ RMul(rv, d) = RAdd(z, p)
            /\ InUnitRange(fv) /\ InUnitRange(rv)
            /\ (z = Zero /\ p = Zero) => (fv = Zero /\ rv = Zero)
            /\ (z = One /\ p = Zero) => (fv = One /\ rv = One)
            /\ (z = Zero /\ p = One) => (fv = MinusOne /\ rv = One)

\* Full heave with full pitch: the rear mix of 2 is scaled down to 1
C7_Witness ==
    /\ alloc_ret.done
    /\ alloc_args.z = One /\ alloc_args.pitch = One
    /\ alloc_ret.vertical = [fv |-> Zero, rv |-> One]

----------------------------------------------------------------------------
(* Properties of the persisted profile, checked under SpecProfile *)

\* C8: save_settings() followed by constructing a new FrameThrusters on the same
\* folder does not raise and yields the same polarity and multiplier for each
\* thruster and the same overall_multiplier.
C8_SaveLoadRoundTrip ==
    last.op = "reload" =>
        /\ frame = "ok"
        /\ exc = None
        /\ Snapshot(thr, overall_multiplier) = last.snap

\* A thruster record that is missing, short, or has a line that does not parse
BadThrusterRecord(f) ==
    \/ ~f.exists
    \/ Len(f.lines) < 6
    \/ \E i \in 1..Len(f.lines) :
          \/ Len(f.lines[i]) < 3
          \/ /\ Len(f.lines[i]) >= 3
             /\ \/ is_bool(f.lines[i][2]) = None
                \/ ~IsFloat(f.lines[i][3])

\* A frame record that is missing, empty, or has a line that does not parse
BadFrameRecord(f) ==
    \/ ~f.exists
    \/ Len(f.lines) < 1
    \/ \E i \in 1..Len(f.lines) :
          \/ Len(f.lines[i]) < 2
          \/ /\ Len(f.lines[i]) >= 2
             /\ ~IsFloat(f.lines[i][2])

\* C9: constructing FrameThrusters on a profile whose thruster or frame record
\* is missing, truncated or unparsable does not raise; it yields the defaults for
\* that record and writes the defaults back to it.
C9_BadProfileLoadsDefaults ==
    last.op \in {"construct", "reload"} =>
        /\ BadThrusterRecord(last.thruster_file) =>
              /\ frame = "ok"
              /\ \A id \in ThrusterIds :
                    thr[id].polarity_mask = 1 /\ thr[id].multiplier = One
              /\ thruster_file = File(default_thruster_lines)
        /\ BadFrameRecord(last.frame_file) =>
              /\ frame = "ok"
              /\ overall_multiplier = One
              /\ frame_file = File(default_frame_lines)

\* The thruster record as section 5 gives it: six lines id:bool:float, in order
StatedThrusterRecord(f) ==
    /\ f.exists
    /\ Len(f.lines) = 6
    /\ \A i \in 1..Len(f.lines) :
          /\ Len(f.lines[i]) = 3
          /\ i <= 6 => f.lines[i][1] = IdOrder[i]
          /\ is_bool(f.lines[i][2]) # None
          /\ IsFloat(f.lines[i][3])

\* The frame record as section 5 gives it: the one line multiplier:float
StatedFrameRecord(f, om) ==
    /\ f.exists
    /\ Len(f.lines) = 1
    /\ \A i \in 1..Len(f.lines) :
          /\ Len(f.lines[i]) = 2
          /\ f.lines[i][1] = "multiplier"
          /\ IsFloat(f.lines[i][Len(f.lines[i])])
          /\ ParseFloat(f.lines[i][Len(f.lines[i])]) = om

\* C13: after save_settings() the thruster record holds exactly six lines
\* id:polarity_bool:multiplier_float, one per fr, fl, rr, rl, fv, rv with a
\* boolean token for the polarity, and the frame record holds exactly the one
\* line multiplier:float carrying the current overall_multiplier.
C13_SavedProfileFormat ==
    last.op = "save_settings" =>
        /\ StatedThrusterRecord(thruster_file)
        /\ StatedFrameRecord(frame_file, overall_multiplier)

\* C14: overall_multiplier of a constructed FrameThrusters lies in [0, 1], after
\* construction from any profile that loads and after any bumper steps.
C14_OverallMultiplierInUnitRange ==
    frame = "ok" => RLe(Zero, overall_multiplier) /\ RLe(overall_multiplier, One)

----------------------------------------------------------------------------
(* Properties of the controller, checked under SpecController *)

Degenerate(range) == range[1] = range[2]

\* C10: with a zero-width range on some stick axis, Controller.get() does not
\* raise; that axis gets the identity mapping (the squeeze of the centered raw
\* value) and the other axes are normalized as usual.
C10_DegenerateRangeIdentity ==
    ((controls.done \/ ctrl_exc # None)
        /\ \E a \in StickAxes : Degenerate(ctrl.range[a]))
    => /\ ctrl_exc = None
       /\ controls.done
       /\ \A a \in StickAxes :
             controls.value.stick[a] =
                IF Degenerate(ctrl.range[a])
                THEN squeeze(Centered(ctrl, raw, a), MinusOne, One, deadzone)
                ELSE squeeze(map_ranges(Centered(ctrl, raw, a), ctrl.range[a],
                                        Canonical),
                             MinusOne, One, deadzone)

\* C12: for _min <= _max and deadband >= 0, squeeze(x, _min, _max, deadband)
\* returns 0 when the clamped value has magnitude at most deadband and the
\* clamped value otherwise; squeeze(0.1,-1,1,0.15) = 0, squeeze(0.2,-1,1,0.15) =
\* 0.2 and squeeze(1.5,-1,1,0.15) = 1.
C12_SqueezeClampsThenDeadband ==
    squeeze_call.done =>
        LET x == squeeze_call.x
            clamped == Clamp(x, squeeze_call._min, squeeze_call._max)
            unit == squeeze_call._min = MinusOne /\ squeeze_call._max = One
                    /\ squeeze_call.deadband = R(15, 100)
        IN  /\ squeeze_call.ret =
                  IF RLe(RAbs(clamped), squeeze_call.deadband) THEN Zero ELSE clamped
            /\ (unit /\ x = R(1, 10)) => squeeze_call.ret = Zero
            /\ (unit /\ x = R(2, 10)) => squeeze_call.ret = R(2, 10)
            /\ (unit /\ x = R(15, 10)) => squeeze_call.ret = One

\* An x above the range whose clamped magnitude is exactly the deadband: 0
C12_Witness ==
    /\ squeeze_call.done
    /\ RLt(squeeze_call._max, squeeze_call.x)
    /\ RLt(Zero, squeeze_call.deadband)
    /\ RAbs(squeeze_call._max) = squeeze_call.deadband
    /\ squeeze_call.ret = Zero

----------------------------------------------------------------------------
(* Properties of the calibration utility, checked under SpecCalibration *)

\* C15: config() does not leave WAIT_FORWARD until left x, left y, right x and
\* right y have all been read as non-zero in the same poll; it keeps waiting
\* while the right stick's y axis reads 0.
C15_WaitForwardGate ==
    [][(cal_state.state = "WAIT_FORWARD" /\ cal_state'.state # "WAIT_FORWARD")
          => \A a \in StickAxes : raw.stick[a] # Zero]_vars

\* The least and the greatest of an axis's centered samples of the sweep
SweepMin(a) ==
    CHOOSE v \in { sweep[i][a] : i \in 1..Len(sweep) } :
        \A i \in 1..Len(sweep) : RLe(v, sweep[i][a])
SweepMax(a) ==
    CHOOSE v \in { sweep[i][a] : i \in 1..Len(sweep) } :
        \A i \in 1..Len(sweep) : RLe(sweep[i][a], v)

\* C16: when config() finishes the sweep, each axis's range[0] is the minimum
\* and range[1] the maximum of that axis's own centered samples of the sweep,
\* so range[0] <= range[1].
C16_SweepTracksMinMax ==
    cal_state.state = "DONE" =>
        \A a \in StickAxes :
            /\ ctrl.range[a] = <<SweepMin(a), SweepMax(a)>>
            /\ RLe(ctrl.range[a][1], ctrl.range[a][2])

----------------------------------------------------------------------------
(* Properties of the control loop, checked under SpecMain *)

\* C17: every iteration of Main.main() that obtains the controls from
\* Controller.get() goes on, without raising, to thrust_calc, get_pwm and one
\* send of the six pulse widths with msg and restart, before the next poll: the
\* loop never ends with an exception, and at each poll one message has been
\* sent per iteration begun.
C17_CycleRunsToCompletion ==
    /\ main_exc = None
    /\ main_pc = "poll" =>
          /\ Len(sent) = cycles
          /\ \A i \in 1..Len(sent) :
                /\ DOMAIN sent[i].pwm = ThrusterIds
                /\ sent[i].msg = <<>>
                /\ sent[i].restart = FALSE

====
